---- MODULE Spec2Model ----
(***************************************************************************)
(* Model of repairer.py (numberly/cassandra-read-repairer): the token      *)
(* range partitioner get_token_ranges, the progress reporter print_stats,  *)
(* the per-table driver repair_table and the __main__ sweep that fans the  *)
(* drivers out over a multiprocessing.Pool, keyspace after keyspace.       *)
(*                                                                         *)
(* Python integers are unbounded, so no arithmetic of the program wraps.   *)
(* sys.maxsize (2^63 - 1) is modelled by the variable maxsize, which Init  *)
(* draws from small values: get_token_ranges is uniform in it.             *)
(***************************************************************************)
EXTENDS Integers, Sequences, FiniteSets, TLC

VARIABLES
    \* ---- command line and cluster metadata (fixed during a run) ----
    maxsize,        \* sys.maxsize, scaled
    partitionsize,  \* options.partitionsize
    processes,      \* options.processes
    concurrency,    \* options.concurrency
    opt_tables,     \* the tables of --tables; {} when not supplied
    opt_keyspaces,  \* the list --keyspaces splits into; <<>> when not supplied
    metadata,       \* cluster.metadata: keyspace -> set of tables
    row_counts,     \* the row counts the ranges of the cluster's tables hold
    \* ---- __main__ ----
    main_pc,        \* position of the main process
    main_session,   \* TRUE iff the session of line 227 is open
    gtr,            \* locals of get_token_ranges: range_size, start, ranges
    partitions,     \* partitions (line 229)
    ks_todo,        \* keyspaces the for loop of line 235 has yet to finish
    tables,         \* sorted(tables) of the current keyspace
    dispatched,     \* number of apply_async calls made for this keyspace
    queue,          \* task queue of the Pool
    got,            \* values returned by r.get(), in order
    out,            \* keyspace verdict lines printed by main
    \* ---- per table: its latest repair_table invocation ----
    pc,             \* table -> position of its repair_table call
    ret,            \* table -> return value of repair_table
    errors,         \* table -> what raised the err printed by line 115
    stats,          \* table -> the Counter stats
    lines,          \* table -> lines printed by print_stats
    script,         \* table -> outcome the cluster gives each range query
    submitted,      \* table -> number of statements handed to the session
    inflight,       \* table -> range queries awaiting their response
    queries,        \* table -> the (start, stop) parameters its invocations
                    \* have sent during the sweep, in order
    consumed,       \* table -> statements whose outcome the loop consumed
    sessions        \* tables whose repair_table call left its session open

cfg_vars == <<maxsize, partitionsize, processes, concurrency, opt_tables,
              opt_keyspaces, metadata, row_counts>>
main_vars == <<main_pc, main_session, gtr, partitions, ks_todo, tables, dispatched,
               queue, got, out>>
table_vars == <<pc, ret, errors, stats, lines, script, submitted, inflight, queries,
                consumed, sessions>>
vars == <<cfg_vars, main_vars, table_vars>>

\* ---- bounds of the model ----
\* largest scaled sys.maxsize the partitioner is explored with
MaxToken == 8
\* scaled sys.maxsize of the sweep and of the small single-table runs
SmallToken == 3
\* scaled sys.maxsize of the long single-table run
LargeToken == 149
\* --partitionsize of the long single-table run
LargePartitionSize == 150
\* tables with at most this many ranges get every outcome script
MaxScripted == 4

\* ---- integer helpers ----
\* Python's // : floor division, for either sign of the divisor
FloorDiv(a, b) == IF b > 0 THEN a \div b ELSE (0 - a) \div (0 - b)

RECURSIVE SortedSeq(_)
\* sorted(S) for a finite set of integers
SortedSeq(S) ==
    IF S = {} THEN <<>>
    ELSE LET m == CHOOSE x \in S : \A y \in S : x <= y
         IN <<m>> \o SortedSeq(S \ {m})

RECURSIVE Insert(_, _)
\* the sorted sequence s with x put in its place
Insert(x, s) ==
    IF s = <<>> THEN <<x>>
    ELSE IF x <= Head(s) THEN <<x>> \o s
    ELSE <<Head(s)>> \o Insert(x, Tail(s))

RECURSIVE sorted(_)
\* sorted(s) for a list of integers: every element is kept, duplicates too
sorted(s) == IF s = <<>> THEN <<>> ELSE Insert(Head(s), sorted(Tail(s)))

\* ------------------------------------------------------------------------
\* get_token_ranges (lines 15-38)
\* ------------------------------------------------------------------------
\* line 16
max_size(ms) == ms * 2

\* a mutant of range_size: the division rounds up
range_size_ceil(ms, partition_size) ==
    FloorDiv(max_size(ms) + partition_size - 1, partition_size)

\* line 17
range_size(ms, partition_size) == FloorDiv(max_size(ms), partition_size)

\* lines 25-29: the end of the range starting at start, and should_break
loop_end(ms, start, rsize) ==
    LET end == start + rsize
    IN IF end >= ms THEN [end |-> ms, should_break |-> TRUE]
       ELSE [end |-> end, should_break |-> FALSE]

\* a mutant of next_start: the next range starts on the previous end
next_start_overlap(end) == end

\* line 36
next_start(end) == end + 1

\* iterations after which the model stops following the while loop of lines
\* 24-36: a call that returns needs at most 2 * maxsize + 1 of them
LoopCap(ms) == 2 * ms + 2

\* ------------------------------------------------------------------------
\* print_stats (lines 41-53)
\* ------------------------------------------------------------------------
\* Counter() of line 93: every key reads 0 until it is written
NewStats == [repaired_rows |-> 0, repaired_partitions |-> 0,
             failed_partitions |-> 0, percent |-> 0]

\* percentages k for which the double k / 100 * 100 is just below k, so that
\* int() gives k - 1 (0.29 * 100 = 28.999999999999996, likewise 0.57, 0.58)
FloatShort == {29, 57, 58}

\* lines 42-46: int(done / len_partitions * 100) in double arithmetic. The
\* quotient is the double nearest to the rational done / len_partitions, so
\* the result depends on that rational only: it is the floor of the exact
\* value, except where the exact value is one of the integers of FloatShort
percent_of(done, len_partitions) ==
    LET exact == (done * 100) \div len_partitions
    IN IF (done * 100) % len_partitions = 0 /\ exact \in FloatShort
       THEN exact - 1 ELSE exact

\* a mutant of completed_ranges: failed ranges do not count as completed
completed_ranges_repaired_only(st) == st.repaired_partitions

\* line 43
completed_ranges(st) == st.repaired_partitions + st.failed_partitions

\* a mutant of should_print: a line for every call
should_print_always(percent, st) == TRUE

\* a mutant of should_print: the same percentage is printed again
should_print_repeat(percent, st) == percent >= st.percent

\* line 47
should_print(percent, st) == percent > st.percent

\* lines 41-53: the stats and the printed lines after the call
print_stats(len_partitions, st, printed) ==
    LET percent == percent_of(completed_ranges(st), len_partitions)
    IN IF should_print(percent, st)
       THEN [stats |-> [st EXCEPT !.percent = percent],
             lines |-> Append(printed,
                         [repaired_rows |-> st.repaired_rows,
                          repaired_partitions |-> st.repaired_partitions,
                          failed_partitions |-> st.failed_partitions,
                          percent |-> percent])]
       ELSE [stats |-> st, lines |-> printed]

\* ------------------------------------------------------------------------
\* repair_table (lines 56-118): the body of the for loop
\* ------------------------------------------------------------------------
\* a mutant of fold_rows: the row count is assigned, not added
fold_rows_overwrite(st, rows) ==
    IF rows = <<>> THEN st
    ELSE [st EXCEPT !.repaired_rows = rows[Len(rows)],
                    !.repaired_partitions = @ + Len(rows)]

RECURSIVE fold_rows(_, _)
\* lines 109-111: for row in result.current_rows
fold_rows(st, rows) ==
    IF rows = <<>> THEN st
    ELSE fold_rows([st EXCEPT !.repaired_rows = @ + Head(rows),
                              !.repaired_partitions = @ + 1], Tail(rows))

\* a mutant of on_failure: a failed range is not counted
on_failure_dropped(st) == st

\* line 107
on_failure(st) == [st EXCEPT !.failed_partitions = @ + 1]

\* lines 106-111: one (success, result) pair folded into stats; rows is
\* result.current_rows as the sequence of its row.count values
fold_outcome(st, outcome) ==
    IF ~outcome.success THEN on_failure(st) ELSE fold_rows(st, outcome.rows)

\* ------------------------------------------------------------------------
\* inputs
\* ------------------------------------------------------------------------
\* what execute_concurrent can yield for one statement: (False, error), or
\* (True, result) where the COUNT query's result holds a single row
Outcomes ==
    {[success |-> FALSE, rows |-> <<>>]}
        \cup {[success |-> TRUE, rows |-> <<c>>] : c \in row_counts}

\* outcome scripts for a table of n ranges: every script when n is small, a
\* few regular ones otherwise
Scripts(n) ==
    IF n <= MaxScripted THEN [1..n -> Outcomes]
    ELSE {[i \in 1..n |-> [success |-> TRUE, rows |-> <<10>>]],
          [i \in 1..n |-> [success |-> FALSE, rows |-> <<>>]],
          [i \in 1..n |-> IF i % 3 = 0 THEN [success |-> FALSE, rows |-> <<>>]
                          ELSE [success |-> TRUE, rows |-> <<10>>]]}

\* the partitioner alone: every partition size around the token span
RangeConfigs ==
    {[maxsize |-> m, partitionsize |-> p, processes |-> 1, concurrency |-> 1,
      opt_tables |-> {}, opt_keyspaces |-> <<>>, metadata |-> <<>>,
      row_counts |-> {}] :
        m \in 1..MaxToken, p \in (0 - 2 * MaxToken - 2)..(2 * MaxToken + 2)}

\* one keyspace holding one table
TableConfigs ==
    {[maxsize |-> SmallToken, partitionsize |-> p, processes |-> 1,
      concurrency |-> c, opt_tables |-> o, opt_keyspaces |-> <<>>,
      metadata |-> <<{11}>>, row_counts |-> {0, 10}] :
        p \in {1, 4}, c \in {1, 2, 4}, o \in {{}, {11}}}
    \cup
    {[maxsize |-> LargeToken, partitionsize |-> LargePartitionSize,
      processes |-> 1, concurrency |-> 1, opt_tables |-> {},
      opt_keyspaces |-> <<>>, metadata |-> <<{11}>>, row_counts |-> {10}]}

\* two keyspaces, the first with more tables than worker processes; the
\* keyspaces come from the metadata or from --keyspaces, which may name a
\* keyspace the cluster does not have and may name a keyspace twice
SweepConfigs ==
    {[maxsize |-> SmallToken, partitionsize |-> 2, processes |-> 2,
      concurrency |-> 1, opt_tables |-> o, opt_keyspaces |-> k,
      metadata |-> <<{11, 12, 13}, {21}>>, row_counts |-> {10}] :
        o \in {{}, {11, 12}}, k \in {<<>>, <<2, 1>>, <<2, 3>>, <<2, 2>>, <<2, 1, 2>>}}

AllTables == UNION {metadata[k] : k \in DOMAIN metadata}

InitWith(configs) ==
    /\ \E c \in configs :
        /\ maxsize = c.maxsize
        /\ partitionsize = c.partitionsize
        /\ processes = c.processes
        /\ concurrency = c.concurrency
        /\ opt_tables = c.opt_tables
        /\ opt_keyspaces = c.opt_keyspaces
        /\ metadata = c.metadata
        /\ row_counts = c.row_counts
    /\ main_pc = "connect"
    /\ main_session = FALSE
    /\ gtr = [range_size |-> 0, start |-> 0, ranges |-> <<>>]
    /\ partitions = <<>>
    /\ ks_todo = <<>>
    /\ tables = <<>>
    /\ dispatched = 0
    /\ queue = <<>>
    /\ got = <<>>
    /\ out = <<>>
    /\ pc = [t \in AllTables |-> "idle"]
    /\ ret = [t \in AllTables |-> FALSE]
    /\ errors = [t \in AllTables |-> ""]
    /\ stats = [t \in AllTables |-> NewStats]
    /\ lines = [t \in AllTables |-> <<>>]
    /\ script = [t \in AllTables |-> <<>>]
    /\ submitted = [t \in AllTables |-> 0]
    /\ inflight = [t \in AllTables |-> {}]
    /\ queries = [t \in AllTables |-> <<>>]
    /\ consumed = [t \in AllTables |-> {}]
    /\ sessions = {}

\* ------------------------------------------------------------------------
\* __main__ (lines 221-262)
\* ------------------------------------------------------------------------
\* lines 221-227: the main process connects; NoHostAvailable is not caught
main_connect ==
    /\ main_pc = "connect"
    /\ \/ main_pc' = "partition" /\ main_session' = TRUE
       \/ main_pc' = "NoHostAvailable" /\ UNCHANGED main_session
    /\ UNCHANGED <<cfg_vars, gtr, partitions, ks_todo, tables, dispatched, queue,
                   got, out, table_vars>>

\* line 229 calls get_token_ranges; lines 16-22, where line 17 divides by
\* partition_size
gtr_call ==
    /\ main_pc = "partition"
    /\ IF partitionsize = 0
       THEN /\ main_pc' = "ZeroDivisionError"
            /\ UNCHANGED gtr
       ELSE /\ main_pc' = "partition_loop"
            /\ gtr' = [range_size |-> range_size(maxsize, partitionsize),
                       start |-> 0 - maxsize, ranges |-> <<>>]
    /\ UNCHANGED <<cfg_vars, main_session, partitions, ks_todo, tables, dispatched,
                   queue, got, out, table_vars>>

\* lines 24-38: one iteration of the while loop; the iteration that breaks
\* returns ranges to line 229
gtr_iterate ==
    /\ main_pc = "partition_loop"
    /\ Len(gtr.ranges) < LoopCap(maxsize)
    /\ LET e == loop_end(maxsize, gtr.start, gtr.range_size)
           appended == Append(gtr.ranges, <<gtr.start, e.end>>)
       IN IF e.should_break
          THEN /\ gtr' = [gtr EXCEPT !.ranges = appended]
               /\ partitions' = appended
               /\ main_pc' = "keyspaces"
          ELSE /\ gtr' = [gtr EXCEPT !.ranges = appended,
                                     !.start = next_start(e.end)]
               /\ UNCHANGED <<partitions, main_pc>>
    /\ UNCHANGED <<cfg_vars, main_session, ks_todo, tables, dispatched, queue, got,
                   out, table_vars>>

\* lines 230-233: keyspaces is the list --keyspaces splits into, as often as
\* it names each keyspace, or the keys of the metadata
Keyspaces ==
    IF opt_keyspaces # <<>> THEN opt_keyspaces ELSE SortedSeq(DOMAIN metadata)

\* lines 230-235: the keyspaces of the sweep, in sorted order
main_keyspaces ==
    /\ main_pc = "keyspaces"
    /\ ks_todo' = sorted(Keyspaces)
    /\ main_pc' = "tables"
    /\ UNCHANGED <<cfg_vars, main_session, gtr, partitions, tables, dispatched,
                   queue, got, out, table_vars>>

\* lines 235-242: the next keyspace of the for loop, its tables, its Pool.
\* Line 237 reads options.table, which argparse never sets (dest="tables")
main_tables ==
    /\ main_pc = "tables"
    /\ IF ks_todo = <<>>
       THEN /\ main_pc' = "finished"
            /\ UNCHANGED tables
       ELSE IF opt_tables # {}
       THEN /\ main_pc' = "AttributeError"
            /\ UNCHANGED tables
       ELSE IF Head(ks_todo) \notin DOMAIN metadata
       THEN /\ main_pc' = "KeyError"
            /\ UNCHANGED tables
       ELSE /\ main_pc' = "dispatch"
            /\ tables' = SortedSeq(metadata[Head(ks_todo)])
    /\ dispatched' = 0
    /\ queue' = <<>>
    /\ got' = <<>>
    /\ UNCHANGED <<cfg_vars, main_session, gtr, partitions, ks_todo, out,
                   table_vars>>

\* the repair_table calls a worker process is executing
Running == {t \in AllTables : pc[t] \in {"connect", "metadata", "prepare", "loop"}}

\* a mutant of worker_free: the pool starts every queued task at once
worker_free_unbounded == TRUE

\* line 242: Pool(options.processes) runs at most that many tasks at a time
worker_free == Cardinality(Running) < processes

\* lines 243-258: one apply_async of the list comprehension, which asks for
\* a new repair_table invocation for the table: whatever an earlier
\* invocation for it left (the keyspace was named more than once) is gone
main_dispatch ==
    /\ main_pc = "dispatch"
    /\ IF dispatched < Len(tables)
       THEN LET t == tables[dispatched + 1]
            IN /\ queue' = Append(queue, t)
               /\ pc' = [pc EXCEPT ![t] = "queued"]
               /\ ret' = [ret EXCEPT ![t] = FALSE]
               /\ errors' = [errors EXCEPT ![t] = ""]
               /\ stats' = [stats EXCEPT ![t] = NewStats]
               /\ lines' = [lines EXCEPT ![t] = <<>>]
               /\ script' = [script EXCEPT ![t] = <<>>]
               /\ submitted' = [submitted EXCEPT ![t] = 0]
               /\ consumed' = [consumed EXCEPT ![t] = {}]
               /\ dispatched' = dispatched + 1
               /\ main_pc' = main_pc
       ELSE /\ main_pc' = "collect"
            /\ UNCHANGED <<queue, pc, dispatched, ret, errors, stats, lines,
                           script, submitted, consumed>>
    /\ UNCHANGED <<cfg_vars, main_session, gtr, partitions, ks_todo, tables, got,
                   out, inflight, queries, sessions>>

\* a worker of the Pool takes the oldest task and calls repair_table
\* (lines 56-67)
worker_start(t) ==
    /\ main_pc \in {"dispatch", "collect"}
    /\ queue # <<>>
    /\ t = Head(queue)
    /\ worker_free
    /\ queue' = Tail(queue)
    /\ pc' = [pc EXCEPT ![t] = "connect"]
    /\ UNCHANGED <<cfg_vars, main_pc, main_session, gtr, partitions, ks_todo, tables,
                   dispatched, got, out, ret, errors, stats, lines, script,
                   submitted, inflight, queries, consumed, sessions>>

\* a mutant of rt_raise: the failing call takes the running calls of the
\* other workers down with it
rt_raise_abort_pool(t, err) ==
    LET hit == Running \cup {t}
    IN /\ pc' = [u \in AllTables |-> IF u \in hit THEN "returned" ELSE pc[u]]
       /\ errors' = [u \in AllTables |-> IF u \in hit THEN err ELSE errors[u]]
       /\ ret' = [u \in AllTables |-> IF u \in hit THEN FALSE ELSE ret[u]]

\* lines 114-116: an exception err of the try block is printed and ends the
\* call with False
rt_raise(t, err) ==
    /\ pc' = [pc EXCEPT ![t] = "returned"]
    /\ errors' = [errors EXCEPT ![t] = err]
    /\ ret' = [ret EXCEPT ![t] = FALSE]

\* lines 69-75: Cluster(...) and cluster.connect(keyspace)
rt_connect(t) ==
    /\ pc[t] = "connect"
    /\ \/ /\ pc' = [pc EXCEPT ![t] = "metadata"]
          /\ sessions' = sessions \cup {t}
          /\ UNCHANGED <<ret, errors>>
       \/ /\ rt_raise(t, "NoHostAvailable")
          /\ UNCHANGED sessions
    /\ UNCHANGED <<cfg_vars, main_vars, stats, lines, script, submitted,
                   inflight, queries, consumed>>

\* lines 77-85: the partition key of the table, from the cluster metadata
rt_metadata(t) ==
    /\ pc[t] = "metadata"
    /\ \/ /\ pc' = [pc EXCEPT ![t] = "prepare"]
          /\ UNCHANGED <<ret, errors>>
       \/ rt_raise(t, "KeyError")
    /\ UNCHANGED <<cfg_vars, main_vars, stats, lines, script, submitted,
                   inflight, queries, consumed, sessions>>

\* lines 94-96: one statement per range, in the order of partitions
statements_and_params(parts) == [i \in 1..Len(parts) |-> parts[i]]

\* lines 87-104: session.prepare, the Counter, the statements and the call of
\* execute_concurrent, whose generator has not sent anything yet. The cluster's
\* answer to each statement is fixed here and revealed as the answers arrive
rt_prepare(t) ==
    /\ pc[t] = "prepare"
    /\ \/ /\ pc' = [pc EXCEPT ![t] = "loop"]
          /\ stats' = [stats EXCEPT ![t] = NewStats]
          /\ \E s \in Scripts(Len(statements_and_params(partitions))) :
                script' = [script EXCEPT ![t] = s]
          /\ UNCHANGED <<ret, errors>>
       \/ /\ rt_raise(t, "InvalidRequest")
          /\ UNCHANGED <<stats, script>>
    /\ UNCHANGED <<cfg_vars, main_vars, lines, submitted, inflight, queries,
                   consumed, sessions>>

\* a mutant of may_submit: the session sends without a concurrency limit
may_submit_unbounded(t) ==
    submitted[t] < Len(statements_and_params(partitions))

\* lines 98-104: execute_concurrent keeps at most concurrency statements in
\* flight and sends the statements in order
may_submit(t) ==
    /\ submitted[t] < Len(statements_and_params(partitions))
    /\ Cardinality(inflight[t]) < concurrency

\* lines 98-104: execute_concurrent sends the next statement
rt_submit(t) ==
    /\ pc[t] = "loop"
    /\ may_submit(t)
    /\ LET i == submitted[t] + 1
       IN /\ submitted' = [submitted EXCEPT ![t] = i]
          /\ inflight' = [inflight EXCEPT ![t] = @ \cup {i}]
          /\ queries' = [queries EXCEPT
                           ![t] = Append(@, statements_and_params(partitions)[i])]
    /\ UNCHANGED <<cfg_vars, main_vars, pc, ret, errors, stats, lines, script,
                   consumed, sessions>>

\* raise_on_first_error=False: a statement leaves the session once its
\* outcome is yielded, whether it succeeded or not
after_outcome(t, i) == inflight[t] \ {i}

\* lines 105-112: one iteration of the for loop, on the outcome of a statement
\* in flight (the generator yields outcomes as they complete)
rt_outcome(t, i) ==
    /\ pc[t] = "loop"
    /\ i \in inflight[t]
    /\ inflight' = [inflight EXCEPT ![t] = after_outcome(t, i)]
    /\ consumed' = [consumed EXCEPT ![t] = @ \cup {i}]
    /\ LET p == print_stats(Len(partitions),
                            fold_outcome(stats[t], script[t][i]), lines[t])
       IN /\ stats' = [stats EXCEPT ![t] = p.stats]
          /\ lines' = [lines EXCEPT ![t] = p.lines]
    /\ UNCHANGED <<cfg_vars, main_vars, pc, ret, errors, script, submitted,
                   queries, sessions>>

\* a mutant of return_value: a table with failed ranges is reported failed
return_value_strict(st) == st.failed_partitions = 0

\* lines 117-118: the try block ended without an exception
return_value(st) == TRUE

\* lines 113-118: the generator is exhausted; print_stats once more, which
\* divides by len_partitions, and the return value
rt_return(t) ==
    /\ pc[t] = "loop"
    /\ submitted[t] = Len(statements_and_params(partitions))
    /\ inflight[t] = {}
    /\ IF Len(partitions) = 0
       THEN /\ rt_raise(t, "ZeroDivisionError")
            /\ UNCHANGED <<stats, lines>>
       ELSE LET p == print_stats(Len(partitions), stats[t], lines[t])
            IN /\ stats' = [stats EXCEPT ![t] = p.stats]
               /\ lines' = [lines EXCEPT ![t] = p.lines]
               /\ pc' = [pc EXCEPT ![t] = "returned"]
               /\ ret' = [ret EXCEPT ![t] = return_value(p.stats)]
               /\ UNCHANGED errors
    /\ UNCHANGED <<cfg_vars, main_vars, script, submitted, inflight, queries,
                   consumed, sessions>>

\* a mutant of result_ready: r.get() does not wait for the call to end
result_ready_nowait(t) == TRUE

\* line 259: r.get() blocks until the repair_table call of table t has ended
result_ready(t) == pc[t] = "returned"

\* line 259: the next r.get() of the list comprehension returns
main_collect ==
    /\ main_pc = "collect"
    /\ Len(got) < Len(tables)
    /\ LET t == tables[Len(got) + 1]
       IN /\ result_ready(t)
          /\ got' = Append(got, ret[t])
    /\ UNCHANGED <<cfg_vars, main_pc, main_session, gtr, partitions, ks_todo, tables,
                   dispatched, queue, out, table_vars>>

\* a mutant of all_results: one table that returned True is enough
all_results_any(results) == \E i \in 1..Len(results) : results[i]

\* line 259: all([...]) of the values the r.get() calls returned
all_results(results) == \A i \in 1..Len(results) : results[i]

\* lines 259-262: all(...) and the verdict line, which branch was printed and
\* the len(tables) it shows; then the with block of line 242 is left, which
\* terminates the worker processes and with them the connections they hold,
\* and the for loop moves on
main_verdict ==
    /\ main_pc = "collect"
    /\ Len(got) = Len(tables)
    /\ out' = Append(out, [keyspace |-> Head(ks_todo),
                           repaired |-> all_results(got),
                           tables |-> Len(tables)])
    /\ ks_todo' = Tail(ks_todo)
    /\ main_pc' = "tables"
    /\ sessions' = {}
    /\ UNCHANGED <<cfg_vars, main_session, gtr, partitions, tables, dispatched,
                   queue, got, pc, ret, errors, stats, lines, script, submitted,
                   inflight, queries, consumed>>

Next ==
    \/ main_connect
    \/ gtr_call
    \/ gtr_iterate
    \/ main_keyspaces
    \/ main_tables
    \/ main_dispatch
    \/ \E t \in AllTables : worker_start(t)
    \/ \E t \in AllTables : rt_connect(t)
    \/ \E t \in AllTables : rt_metadata(t)
    \/ \E t \in AllTables : rt_prepare(t)
    \/ \E t \in AllTables : rt_submit(t)
    \/ \E t \in AllTables : \E i \in inflight[t] : rt_outcome(t, i)
    \/ \E t \in AllTables : rt_return(t)
    \/ main_collect
    \/ main_verdict

\* the sweep: two keyspaces, three tables in the first
Spec == InitWith(SweepConfigs) /\ [][Next]_vars

\* one table, with few ranges and with many
SpecTable == InitWith(TableConfigs) /\ [][Next]_vars

\* the partitioner alone, on every partition size
NextRanges == main_connect \/ gtr_call \/ gtr_iterate

SpecRanges == InitWith(RangeConfigs) /\ [][NextRanges]_vars

\* ------------------------------------------------------------------------
\* properties
\* ------------------------------------------------------------------------
\* get_token_ranges has returned to line 229
Partitioned ==
    main_pc \notin {"connect", "NoHostAvailable", "partition", "partition_loop",
                    "ZeroDivisionError"}

\* ranges is an ordered sequence of inclusive ranges that tiles [-ms, ms]
Tiles(ranges, ms) ==
    /\ Len(ranges) >= 1
    /\ ranges[1][1] = 0 - ms
    /\ ranges[Len(ranges)][2] = ms
    /\ \A i \in 1..Len(ranges) : ranges[i][1] <= ranges[i][2]
    /\ \A i \in 1..(Len(ranges) - 1) : ranges[i + 1][1] = ranges[i][2] + 1

\* C1: for every partition_size >= 1 get_token_ranges returns (its loop never
\* collects more ranges than there are tokens), and the ranges it returns
\* tile [-maxsize, maxsize]: the first starts at -maxsize, the last ends at
\* maxsize, each has start <= end, and each starts one past the previous end.
C1_Tiling ==
    partitionsize >= 1 =>
        /\ main_pc # "ZeroDivisionError"
        /\ main_pc = "partition_loop" => Len(gtr.ranges) <= 2 * maxsize
        /\ Partitioned => Tiles(partitions, maxsize)

\* C1 witness: partition_size 4 over [-3, 3] gives four ranges, the last one
\* clamped to the upper bound
C1_Witness ==
    /\ main_pc = "keyspaces"
    /\ partitionsize = 4
    /\ partitions = <<<<-3, -2>>, <<-1, 0>>, <<1, 2>>, <<3, 3>>>>

\* the number of ranges every table is swept with
NumRanges == Len(partitions)

\* repair_table has returned for table t without an exception
Completed(t) == pc[t] = "returned" /\ errors[t] = ""

\* the statements of table t, among those of S, that the cluster fails
FailedIn(t, S) == {i \in S : ~script[t][i].success}

\* C2: a table's driver goes on after a failed range (while statements remain
\* it has one in flight or can send one), and when it finishes after N ranges
\* of which k failed, every outcome was consumed,
\* repaired_partitions + failed_partitions = N and failed_partitions = k.
C2_AttemptAll ==
    \A t \in AllTables :
        /\ (pc[t] = "loop" /\ stats[t].failed_partitions > 0
                /\ consumed[t] # 1..NumRanges)
              => (inflight[t] # {} \/ may_submit(t))
        /\ Completed(t) =>
              /\ consumed[t] = 1..NumRanges
              /\ stats[t].repaired_partitions + stats[t].failed_partitions
                    = NumRanges
              /\ stats[t].failed_partitions
                    = Cardinality(FailedIn(t, 1..NumRanges))

\* C2 witness: four ranges, the first one and one more failing
C2_Witness ==
    \E t \in AllTables :
        /\ Completed(t)
        /\ NumRanges = 4
        /\ ~script[t][1].success
        /\ stats[t].failed_partitions = 2
        /\ stats[t].repaired_partitions = 2

\* the scenario of the specification: range 2 fails, the others count 10 rows
Scenario ==
    <<[success |-> TRUE, rows |-> <<10>>], [success |-> FALSE, rows |-> <<>>],
      [success |-> TRUE, rows |-> <<10>>], [success |-> TRUE, rows |-> <<10>>]>>

\* C3: repair_table returns True exactly when no exception escaped the try
\* block, however many ranges failed; an exception comes from connecting,
\* from the metadata lookup or from prepare; and on four ranges of which the
\* second fails and the others count 10 rows it ends with repaired_rows = 30,
\* repaired_partitions = 3, failed_partitions = 1 and returns True.
C3_ReturnValue ==
    \A t \in AllTables :
        pc[t] = "returned" =>
            /\ ret[t] <=> errors[t] = ""
            /\ errors[t] \in {"", "NoHostAvailable", "KeyError", "InvalidRequest"}
            /\ (errors[t] = "" /\ script[t] = Scenario) =>
                  /\ ret[t]
                  /\ stats[t].repaired_rows = 30
                  /\ stats[t].repaired_partitions = 3
                  /\ stats[t].failed_partitions = 1

\* C3 witness: the scenario has run and returned True
C3_Witness ==
    \E t \in AllTables :
        /\ pc[t] = "returned"
        /\ script[t] = Scenario
        /\ ret[t]
        /\ stats[t].repaired_rows = 30
        /\ stats[t].failed_partitions = 1

\* the number of queries sent for table t with the parameters of range r
TimesQueried(t, r) ==
    Cardinality({j \in 1..Len(queries[t]) : queries[t][j] = r})

\* C4: in a sweep no range is queried twice for a table, and a table whose
\* driver ended without an exception has had every range of partitions
\* queried exactly once.
C4_ExactlyOnce ==
    \A t \in AllTables :
        /\ \A i \in 1..NumRanges : TimesQueried(t, partitions[i]) <= 1
        /\ Completed(t) =>
              /\ Len(queries[t]) = NumRanges
              /\ \A i \in 1..NumRanges : TimesQueried(t, partitions[i]) = 1

\* C5: the percentages of the lines print_stats emitted for a table are
\* strictly increasing, and the stored percent is the last one emitted.
C5_Monotonic ==
    \A t \in AllTables :
        /\ \A i \in 1..(Len(lines[t]) - 1) :
              lines[t][i].percent < lines[t][i + 1].percent
        /\ stats[t].percent =
              IF lines[t] = <<>> THEN 0 ELSE lines[t][Len(lines[t])].percent

\* C5 witness: a finished table for which some calls printed and others,
\* the last one among them, did not
C5_Witness ==
    \E t \in AllTables :
        /\ Completed(t)
        /\ Len(lines[t]) >= 3
        /\ Len(lines[t]) < Cardinality(consumed[t])

\* C6: when repair_table returns without an exception, the last line it
\* printed carries the final counters of stats, which account for every range,
\* at 100%.
C6_FinalSummary ==
    \A t \in AllTables :
        Completed(t) =>
            /\ lines[t] # <<>>
            /\ LET last == lines[t][Len(lines[t])]
               IN /\ last.percent = 100
                  /\ last.repaired_rows = stats[t].repaired_rows
                  /\ last.repaired_partitions = stats[t].repaired_partitions
                  /\ last.failed_partitions = stats[t].failed_partitions
                  /\ last.repaired_partitions + last.failed_partitions
                        = NumRanges

\* C6 witness: a finished table with failed ranges and with more ranges than
\* percentage points, so that most outcomes printed nothing
C6_Witness ==
    \E t \in AllTables :
        /\ Completed(t)
        /\ NumRanges > 100
        /\ stats[t].failed_partitions > 0
        /\ lines[t][Len(lines[t])].percent = 100

\* C7: one repair_table call prints at most 101 progress lines.
C7_BoundedOutput == \A t \in AllTables : Len(lines[t]) <= 101

\* C7 witness: a finished table of more than 101 ranges printed 100 lines
C7_Witness ==
    \E t \in AllTables :
        /\ Completed(t)
        /\ NumRanges > 101
        /\ Len(lines[t]) = 100

\* C8: the number of repair_table calls executing at the same time never
\* exceeds options.processes.
C8_ProcessBound == Cardinality(Running) <= processes

\* C8 witness: a keyspace with more tables than processes, every worker busy
\* and a table waiting in the queue
C8_Witness ==
    /\ Len(tables) > processes
    /\ Cardinality(Running) = processes
    /\ queue # <<>>

\* the range queries in flight, over all tables
InFlight == UNION {{<<t, i>> : i \in inflight[t]} : t \in AllTables}

\* C9: a driver never has more than concurrency range queries in flight, and
\* the sweep never more than processes * concurrency.
C9_QueryBound ==
    /\ \A t \in AllTables : Cardinality(inflight[t]) <= concurrency
    /\ Cardinality(InFlight) <= processes * concurrency

\* C9 witness: processes * concurrency queries are in flight while a driver
\* still holds statements it has not sent
C9_Witness ==
    /\ Cardinality(InFlight) = processes * concurrency
    /\ \E t \in AllTables : inflight[t] # {} /\ submitted[t] < NumRanges

RECURSIVE fold_script(_, _, _)
\* stats after the outcomes i..Len(s) of script s are folded into st in order
fold_script(s, i, st) ==
    IF i > Len(s) THEN st ELSE fold_script(s, i + 1, fold_outcome(st, s[i]))

\* the stats of a driver that is given script s and nothing else happens
ExpectedStats(s) == [fold_script(s, 1, NewStats) EXCEPT !.percent = 100]

\* the tables dispatched together with table t
Siblings(t) ==
    UNION {metadata[k] : k \in {j \in DOMAIN metadata : t \in metadata[j]}} \ {t}

\* the main process has ended, normally or by an exception
MainEnded ==
    main_pc \in {"finished", "NoHostAvailable", "ZeroDivisionError",
                 "AttributeError", "KeyError"}

\* C10: a fatal setup failure of one table's driver leaves the drivers of the
\* other tables of the keyspace alone: an exception only ever ends a driver
\* in its own setup, before it sent a query; a driver that ran beside a failed
\* one returns True with exactly the stats its own range outcomes give; and
\* the sweep never comes to a halt before the main process has ended.
C10_Isolation ==
    /\ \A t \in AllTables :
          /\ errors[t] # "" => (pc[t] = "returned" /\ submitted[t] = 0)
          /\ (Completed(t) /\ \E u \in Siblings(t) : errors[u] # "") =>
                /\ ret[t]
                /\ stats[t] = ExpectedStats(script[t])
    /\ MainEnded \/ ENABLED Next

\* C10 witness: the keyspace verdict is out, one driver failed in its setup
\* and another one of the keyspace repaired a range and lost one
C10_Witness ==
    /\ out # <<>>
    /\ \E t, u \in metadata[1] :
          /\ errors[u] = "KeyError"
          /\ Completed(t)
          /\ stats[t].repaired_partitions = 1
          /\ stats[t].failed_partitions = 1

\* the keyspaces the sweep is asked to go through
KeyspaceSet == {Keyspaces[i] : i \in 1..Len(Keyspaces)}

\* the keyspace that holds table t
KeyspaceOf(t) == CHOOSE k \in DOMAIN metadata : t \in metadata[k]

\* the keyspaces whose verdict line is out
Reported == {out[i].keyspace : i \in 1..Len(out)}

\* the for loop of line 235 has its list of keyspaces
Sweeping ==
    main_pc \in {"tables", "dispatch", "collect", "finished", "AttributeError",
                 "KeyError"}

\* the verdict out[i] is the latest of its keyspace, and the keyspace, if it
\* was named once more, is not being processed again
Standing(i) ==
    /\ \A j \in (i + 1)..Len(out) : out[j].keyspace # out[i].keyspace
    /\ ~(main_pc \in {"dispatch", "collect"} /\ Head(ks_todo) = out[i].keyspace)

\* C11: keyspaces are processed in sorted order, one at a time (the verdicts
\* printed, followed by the keyspaces still to do, are the sorted list of
\* keyspaces, and a driver that has not returned belongs to the keyspace
\* being processed); the verdict of a keyspace is printed only after every
\* table driver of that keyspace has returned (they have all returned when
\* the verdict is out, until the keyspace is taken up again); and no driver
\* of a table is dispatched, let alone started, before the verdict of every
\* earlier keyspace is printed.
C11_KeyspaceBarrier ==
    /\ Sweeping =>
          [i \in 1..Len(out) |-> out[i].keyspace] \o ks_todo = sorted(Keyspaces)
    /\ \A i \in 1..Len(out) :
          Standing(i) => \A t \in metadata[out[i].keyspace] : pc[t] = "returned"
    /\ \A t \in AllTables :
          /\ pc[t] \notin {"idle", "returned"} =>
                (ks_todo # <<>> /\ Head(ks_todo) = KeyspaceOf(t))
          /\ pc[t] # "idle" =>
                \A k \in KeyspaceSet : k < KeyspaceOf(t) => k \in Reported

\* C11 witness: the verdict of the first keyspace is out, its three drivers
\* have returned, and a driver of the second keyspace is sending its queries
C11_Witness ==
    /\ Len(out) = 1
    /\ out[1].keyspace = 1
    /\ \A t \in metadata[1] : pc[t] = "returned"
    /\ \E t \in metadata[2] : pc[t] = "loop" /\ inflight[t] # {}

\* C12: a keyspace is reported repaired if and only if every table driver
\* dispatched for it returned True, and failed as soon as one returned False,
\* whatever the order in which the drivers finished; the line counts the
\* tables of the keyspace. The return values are those of the drivers the
\* verdict was taken from: the verdict is compared with them until the
\* keyspace, named once more, is taken up again.
C12_KeyspaceVerdict ==
    \A i \in 1..Len(out) :
        /\ Standing(i) =>
              (out[i].repaired <=> \A t \in metadata[out[i].keyspace] : ret[t])
        /\ out[i].tables = Cardinality(metadata[out[i].keyspace])

\* C12 witness: a keyspace of three tables reported failed because the driver
\* of its second table alone returned False, and a keyspace reported repaired
C12_Witness ==
    /\ Len(out) = 2
    /\ ~out[1].repaired
    /\ out[2].repaired
    /\ \E t \in metadata[out[1].keyspace] :
          /\ ~ret[t]
          /\ \A u \in metadata[out[1].keyspace] : (u < t \/ u > t) => ret[u]
          /\ \E u, v \in metadata[out[1].keyspace] : u < t /\ t < v

\* the table list of keyspace k as the claim resolves it: the --tables filter
\* when one is supplied, the tables the metadata holds for k otherwise
Resolved(k) == IF opt_tables # {} THEN opt_tables ELSE metadata[k]

\* the iteration of the for loop of line 235 for keyspace k is past its
\* apply_async calls, or was ended by line 237
Processed(k) ==
    \/ k \in Reported
    \/ /\ ks_todo # <<>>
       /\ Head(ks_todo) = k
       /\ main_pc \in {"collect", "AttributeError"}

\* C13: for each keyspace processed, one table driver is dispatched per table
\* of the resolved table list, the --tables filter when one is supplied and
\* the tables of the metadata otherwise, and no driver for any other table.
C13_TableSelection ==
    /\ \A k \in KeyspaceSet :
          (Processed(k) /\ (opt_tables # {} \/ k \in DOMAIN metadata)) =>
              \A t \in Resolved(k) : pc[t] # "idle"
    /\ \A t \in AllTables :
          pc[t] # "idle" =>
              \E k \in KeyspaceSet \cap DOMAIN metadata :
                  t \in Resolved(k) /\ (Processed(k) \/ Head(ks_todo) = k)

\* C14: when range_size computes to 0 (partition_size larger than
\* total_span = 2 * maxsize), get_token_ranges fails fast: it does not enter
\* its emit loop and returns no ranges.
C14_FailFast ==
    (partitionsize > max_size(maxsize)
        /\ range_size(maxsize, partitionsize) = 0) =>
            /\ main_pc # "partition_loop"
            /\ gtr.ranges = <<>>
            /\ ~Partitioned

\* C15: for every integer partition_size <= 1 (1, 0 and the negative ones)
\* get_token_ranges terminates, raising nothing and never collecting more
\* ranges than there are tokens, and returns at least one range.
C15_AtLeastOneRange ==
    partitionsize <= 1 =>
        /\ main_pc # "ZeroDivisionError"
        /\ main_pc = "partition_loop" => Len(gtr.ranges) <= 2 * maxsize
        /\ Partitioned => Len(partitions) >= 1

\* C16: a program that failed on its partition size has opened no connection
\* to the cluster, and no connection is open before the token ranges have
\* been computed.
C16_ConfigFirst ==
    /\ main_pc = "ZeroDivisionError" => ~main_session
    /\ ~Partitioned => ~main_session

RECURSIVE run_in_order(_, _, _, _)
\* the stats and the lines of a driver whose outcomes i..Len(s) of script s
\* are delivered in the order of the ranges, the call of line 113 included
run_in_order(s, i, st, printed) ==
    IF i > Len(s) THEN print_stats(Len(s), st, printed)
    ELSE LET p == print_stats(Len(s), fold_outcome(st, s[i]), printed)
         IN run_in_order(s, i + 1, p.stats, p.lines)

\* the percentages of a sequence of printed lines
Percents(printed) == [i \in 1..Len(printed) |-> printed[i].percent]

\* C17: whatever the order in which the outcomes of a table's ranges were
\* delivered, the driver ends with the repaired_rows, repaired_partitions and
\* failed_partitions, the return value and the sequence of printed
\* percentages that the delivery in range order gives. It is stated of the
\* tables that get every outcome script and a concurrency above 1; the long
\* table is swept with concurrency 1, which delivers in range order only.
C17_OrderIndependence ==
    \A t \in AllTables :
        (Completed(t) /\ NumRanges <= MaxScripted) =>
            LET r == run_in_order(script[t], 1, NewStats, <<>>)
            IN /\ stats[t].repaired_rows = r.stats.repaired_rows
               /\ stats[t].repaired_partitions = r.stats.repaired_partitions
               /\ stats[t].failed_partitions = r.stats.failed_partitions
               /\ ret[t] = return_value(r.stats)
               /\ Percents(lines[t]) = Percents(r.lines)

\* C17 witness: of four ranges the second, which fails, was delivered first
\* (the first line printed already counts it), and the driver has returned
C17_Witness ==
    \E t \in AllTables :
        /\ Completed(t)
        /\ script[t] = Scenario
        /\ lines[t][1].failed_partitions = 1
        /\ stats[t].repaired_rows = 30

\* the repair_table calls that are past cluster.connect and have not returned
Connected == {t \in AllTables : pc[t] \in {"metadata", "prepare", "loop"}}

\* C18: every table driver holds a session of its own from its connect on,
\* that session is torn down by the time the driver returns, with True or
\* with False, and the number of open driver sessions never exceeds
\* options.processes.
C18_SessionLifecycle ==
    /\ Connected \subseteq sessions
    /\ \A t \in AllTables : pc[t] = "returned" => t \notin sessions
    /\ Cardinality(sessions) <= processes

\* end - start of a range
Span(r) == r[2] - r[1]

\* C19: for every partition_size from 1 to total_span = 2 * maxsize,
\* get_token_ranges terminates (its loop never holds partition_size ranges
\* without having returned) and returns at least 1 and at most partition_size
\* ranges; every range but the last spans exactly total_span \div partition_size
\* and the last spans at most that.
C19_RangeCount ==
    (1 <= partitionsize /\ partitionsize <= 2 * maxsize) =>
        /\ main_pc # "ZeroDivisionError"
        /\ main_pc = "partition_loop" => Len(gtr.ranges) < partitionsize
        /\ Partitioned =>
              LET n == Len(partitions)
                  size == (2 * maxsize) \div partitionsize
              IN /\ n >= 1
                 /\ n <= partitionsize
                 /\ \A i \in 1..(n - 1) : Span(partitions[i]) = size
                 /\ Span(partitions[n]) <= size

\* C19 witness: truncation gives fewer ranges than asked for, the last one
\* shorter than the others (partition_size 6 over [-3, 3] gives 4 ranges)
C19_Witness ==
    /\ main_pc = "keyspaces"
    /\ partitionsize = 6
    /\ maxsize = 3
    /\ Len(partitions) = 4
    /\ Span(partitions[4]) < Span(partitions[1])

\* the step of table t is the return of lines 113-118 after at least one
\* outcome was delivered
ReturnsAfterOutcome(t) ==
    /\ pc[t] = "loop"
    /\ pc'[t] = "returned"
    /\ consumed[t] # {}

\* C20: the print_stats call of line 113 prints nothing and leaves stats as
\* they are when at least one outcome was delivered, the percentage it
\* computes being the one already stored; and no line is ever printed with
\* percentage 0, so a table has no line until 1% of its ranges have completed.
C20_FinalCallNoOp ==
    /\ [](\A t \in AllTables :
             /\ \A i \in 1..Len(lines[t]) : lines[t][i].percent >= 1
             /\ lines[t] # <<>> =>
                   completed_ranges(stats[t]) * 100 >= NumRanges
             /\ (pc[t] = "loop" /\ consumed[t] # {}) =>
                   percent_of(completed_ranges(stats[t]), NumRanges)
                       = stats[t].percent)
    /\ [][\A t \in AllTables :
             ReturnsAfterOutcome(t) =>
                 (stats'[t] = stats[t] /\ lines'[t] = lines[t])]_vars

\* C20 witness: a driver of more than 100 ranges has returned; its first
\* outcome printed nothing, its first line came with the second outcome at
\* 1%, and its last line, at 100%, came from the loop
C20_Witness ==
    \E t \in AllTables :
        /\ Completed(t)
        /\ NumRanges > 100
        /\ lines[t][1].percent = 1
        /\ lines[t][1].repaired_partitions + lines[t][1].failed_partitions = 2
        /\ stats[t].percent = 100

====
